---- MODULE Spec2Model ----
(***************************************************************************)
(* The memoizing accessor property_wrap (src/structure.py) and the base    *)
(* Model (src/models.py) whose four accessors it wraps.                    *)
(*                                                                         *)
(* One step of the model is one of the four operations of `decorator`      *)
(* (the `is None` test, the call of func, the setattr, the final getattr)  *)
(* executed by one thread, so that reads by two threads interleave at      *)
(* that granularity.  Each thread has a call stack, which is what a        *)
(* computation that reads its own accessor needs.                          *)
(***************************************************************************)
EXTENDS Integers, Sequences, FiniteSets, TLC

\* ---------------------------------------------------------------- bounds
\* client operations (reads, direct calls) in a sequential run
MaxOps == 3
\* client operations, over both threads, in a concurrent run
MaxRaceOps == 2
\* a failing computation fails on its first k invocations, 1 <= k <= MaxFail
MaxFail == 2

\* ------------------------------------------------------------ the program
\* None, the value every backing attribute is created with.
None == 0

Instances == {"A", "B"}

Slots == {"_prediction", "_loss", "_metric", "_optimize"}

Threads == {1, 2}

Cells == Instances \X Slots

\* The bodies a (sub)class can give to an accessor:
\*   default   : the base Model's body, `return self._<slot>`
\*   counter   : counts its invocations and returns the count (1, 2, 3, ...)
\*   failing   : a counter that raises on its first failK invocations
\*   reentrant : a counter whose first invocation reads its own accessor
\*               before it returns
Kinds == {"default", "counter", "failing", "reentrant"}

\* The classes under test: the base Model and subclasses overriding the four
\* accessor bodies.
Classes ==
  { [s \in Slots |-> "default"],
    [s \in Slots |-> "counter"],
    [s \in Slots |-> "failing"],
    [s \in Slots |-> "reentrant"],
    [s \in Slots |-> CASE s = "_prediction" -> "counter"
                       [] s = "_loss"       -> "failing"
                       [] s = "_metric"     -> "default"
                       [] OTHER             -> "reentrant"] }

VARIABLES
  cls,          \* the class of the instances: slot -> kind of its body
  failK,        \* the k of the failing bodies
  config,       \* instance -> data, batch_size, testing, learning_rate
  global_step,  \* instance -> global_step
  slot,         \* <<instance, slot>> -> the backing attribute's value
  calls,        \* <<instance, slot>> -> executions of the body so far
  direct,       \* <<instance, slot>> -> of these, the direct invocations
  nreads,       \* <<instance, slot>> -> completed client reads
  rets,         \* <<instance, slot>> -> values client reads have returned
  stack,        \* thread -> its call stack, innermost frame first
  outcome,      \* thread -> how its last client operation ended
  ops           \* client operations started

vars == <<cls, failK, config, global_step, slot, calls, direct, nreads, rets,
          stack, outcome, ops>>

NoOutcome == [op |-> "none", inst |-> "A", slot |-> "_loss", how |-> "ret",
              val |-> None, res |-> None]

\* Model.__init__ with its default arguments.
ModelInit ==
  /\ config = [i \in Instances |->
                 [data |-> None, batch_size |-> None, testing |-> FALSE,
                  learning_rate |-> "1e-4"]]
  /\ global_step = [i \in Instances |-> None]
  /\ slot = [c \in Cells |-> None]

Init ==
  /\ cls \in Classes
  /\ failK \in (IF \E s \in Slots : cls[s] = "failing" THEN 1..MaxFail ELSE {1})
  /\ ModelInit
  /\ calls = [c \in Cells |-> 0]
  /\ direct = [c \in Cells |-> 0]
  /\ nreads = [c \in Cells |-> 0]
  /\ rets = [c \in Cells |-> {}]
  /\ stack = [t \in Threads |-> <<>>]
  /\ outcome = [t \in Threads |-> NoOutcome]
  /\ ops = 0

\* ------------------------------------------------------- the computations
\* n is the number of the invocation (the body's own counter after it has
\* incremented it).
Raises(kind, n) == kind = "failing" /\ n <= failK

Reenters(kind, n) == kind = "reentrant" /\ n = 1

\* What the body returns: the base Model's bodies return the attribute.
FuncResult(kind, i, s, n) == IF kind = "default" THEN slot[<<i, s>>] ELSE n

\* ------------------------------------------------------------ the accessor
\* Variants of the accessor's statements, each the slip a plausible edit of
\* decorator would make; the properties below are checked against them too.
\* No test at all: the body runs on every read.
IsUnsetAlways(i, s) == TRUE

\* "Has the function been called" instead of "is the attribute None".
IsUnsetNeverCalled(i, s) == calls[<<i, s>>] = 0

\* `getattr(self, attr) is None`
IsUnset(i, s) == slot[<<i, s>>] = None

\* attr bound late: every accessor writes the last decorated attribute.
SetAttrLateBound(i, s, v) == [slot EXCEPT ![<<i, "_optimize">>] = v]

\* The cache kept on the class, shared by its instances.
SetAttrOnClass(i, s, v) == [c \in Cells |-> IF c[2] = s THEN v ELSE slot[c]]

\* A write that gives way to a value already there (first writer wins).
SetAttrIfUnset(i, s, v) ==
  IF slot[<<i, s>>] = None THEN [slot EXCEPT ![<<i, s>>] = v] ELSE slot

\* `setattr(self, attr, v)`: the attributes after it.
SetAttr(i, s, v) == [slot EXCEPT ![<<i, s>>] = v]

\* Returning the value the frame computed instead of re-reading the attribute.
ReturnComputed(f) == f.res

\* `return getattr(self, attr)` of frame f.
ReturnValue(f) == slot[<<f.inst, f.slot>>]

\* A decorator that swallows the fault and goes on to its return statement.
UnwindCaught(st) == <<[Head(st) EXCEPT !.pc = "get"]>> \o Tail(st)

\* The stack a fault raised by the body leaves of stack st: decorator has no
\* try/except, so no frame catches it.
Unwind(st) == <<>>

Frame(i, s, pc, res) == [inst |-> i, slot |-> s, pc |-> pc, res |-> res]

Top(t) == Head(stack[t])

At(t, pc) == stack[t] # <<>> /\ Top(t).pc = pc

\* The client operation a stack belongs to is its outermost frame: a
\* decorator frame for a read, a body frame ("inner") for a direct call.
Bottom(st) == st[Len(st)]

IsRead(st) == Bottom(st).pc # "inner"

\* A client starts reading instance i's accessor of slot s.
StartRead(t, i, s, budget) ==
  /\ stack[t] = <<>>
  /\ ops < budget
  /\ ops' = ops + 1
  /\ stack' = [stack EXCEPT ![t] = <<Frame(i, s, "check", None)>>]
  /\ UNCHANGED <<cls, failK, config, global_step, slot, calls, direct, nreads,
                 rets, outcome>>

\* line 22: if getattr(self, attr) is None
Check(t) ==
  /\ At(t, "check")
  /\ LET f == Top(t) IN
       stack' = [stack EXCEPT ![t] =
                   <<[f EXCEPT !.pc = IF IsUnset(f.inst, f.slot)
                                        THEN "call" ELSE "get"]>>
                   \o Tail(stack[t])]
  /\ UNCHANGED <<cls, failK, config, global_step, slot, calls, direct, nreads,
                 rets, outcome, ops>>

\* line 23, the call func(self).  A fault is caught by no frame: it unwinds
\* the thread's whole stack and reaches the client.
Call(t) ==
  /\ At(t, "call")
  /\ LET f == Top(t)
         c == <<f.inst, f.slot>>
         k == cls[f.slot]
         n == calls[c] + 1
         b == Bottom(stack[t])
     IN
       /\ calls' = [calls EXCEPT ![c] = n]
       /\ IF Raises(k, n)
            THEN /\ stack' = [stack EXCEPT ![t] = Unwind(stack[t])]
                 /\ IF Unwind(stack[t]) = <<>>
                      THEN /\ outcome' = [outcome EXCEPT ![t] =
                                 [op |-> IF IsRead(stack[t]) THEN "read" ELSE "direct",
                                  inst |-> b.inst, slot |-> b.slot, how |-> "raise",
                                  val |-> n, res |-> None]]
                           /\ nreads' = IF IsRead(stack[t])
                                 THEN [nreads EXCEPT ![<<b.inst, b.slot>>] = @ + 1]
                                 ELSE nreads
                      ELSE UNCHANGED <<outcome, nreads>>
            ELSE /\ stack' = [stack EXCEPT ![t] =
                       IF Reenters(k, n)
                         THEN <<Frame(f.inst, f.slot, "check", None),
                                Frame(f.inst, f.slot, "inner", n),
                                [f EXCEPT !.pc = "wait"]>> \o Tail(stack[t])
                         ELSE <<[f EXCEPT !.pc = "set",
                                          !.res = FuncResult(k, f.inst, f.slot, n)]>>
                              \o Tail(stack[t])]
                 /\ UNCHANGED <<outcome, nreads>>
  /\ UNCHANGED <<cls, failK, config, global_step, slot, direct, rets, ops>>

\* line 23, the setattr of the value func returned
Set(t) ==
  /\ At(t, "set")
  /\ LET f == Top(t) IN
       /\ slot' = SetAttr(f.inst, f.slot, f.res)
       /\ stack' = [stack EXCEPT ![t] = <<[f EXCEPT !.pc = "get"]>> \o Tail(stack[t])]
  /\ UNCHANGED <<cls, failK, config, global_step, calls, direct, nreads, rets,
                 outcome, ops>>

\* line 24: return getattr(self, attr).  The value goes to the client, or,
\* for a read made by a body, to that body, which drops it.
Get(t) ==
  /\ At(t, "get")
  /\ LET f == Top(t)
         c == <<f.inst, f.slot>>
         v == ReturnValue(f)
     IN
       /\ stack' = [stack EXCEPT ![t] = Tail(stack[t])]
       /\ IF Tail(stack[t]) = <<>>
            THEN /\ outcome' = [outcome EXCEPT ![t] =
                       [op |-> "read", inst |-> f.inst, slot |-> f.slot,
                        how |-> "ret", val |-> v, res |-> f.res]]
                 /\ nreads' = [nreads EXCEPT ![c] = @ + 1]
                 /\ rets' = [rets EXCEPT ![c] = @ \cup {v}]
            ELSE UNCHANGED <<outcome, nreads, rets>>
  /\ UNCHANGED <<cls, failK, config, global_step, slot, calls, direct, ops>>

\* A body that read its own accessor returns its count: to the decorator
\* that called it, or to the client that invoked it directly.
FuncReturn(t) ==
  /\ At(t, "inner")
  /\ LET f == Top(t)
         rest == Tail(stack[t])
     IN
       IF rest = <<>>
         THEN /\ stack' = [stack EXCEPT ![t] = <<>>]
              /\ outcome' = [outcome EXCEPT ![t] =
                    [op |-> "direct", inst |-> f.inst, slot |-> f.slot,
                     how |-> "ret", val |-> f.res, res |-> f.res]]
         ELSE /\ stack' = [stack EXCEPT ![t] =
                    <<[Head(rest) EXCEPT !.pc = "set", !.res = f.res]>> \o Tail(rest)]
              /\ UNCHANGED outcome
  /\ UNCHANGED <<cls, failK, config, global_step, slot, calls, direct, nreads,
                 rets, ops>>

\* A client invokes the underlying computation directly, past the accessor.
DirectCall(t, i, s, budget) ==
  /\ stack[t] = <<>>
  /\ ops < budget
  /\ ops' = ops + 1
  /\ LET c == <<i, s>>
         k == cls[s]
         n == calls[c] + 1
     IN
       /\ calls' = [calls EXCEPT ![c] = n]
       /\ direct' = [direct EXCEPT ![c] = @ + 1]
       /\ IF Reenters(k, n)
            THEN /\ stack' = [stack EXCEPT ![t] =
                       <<Frame(i, s, "check", None), Frame(i, s, "inner", n)>>]
                 /\ UNCHANGED outcome
            ELSE /\ stack' = stack
                 /\ outcome' = [outcome EXCEPT ![t] =
                       [op |-> "direct", inst |-> i, slot |-> s,
                        how |-> IF Raises(k, n) THEN "raise" ELSE "ret",
                        val |-> IF Raises(k, n) THEN n ELSE FuncResult(k, i, s, n),
                        res |-> IF Raises(k, n) THEN None ELSE FuncResult(k, i, s, n)]]
  /\ UNCHANGED <<cls, failK, config, global_step, slot, nreads, rets>>

\* Two threads sharing the instances.
Next ==
  \E t \in Threads :
    \/ \E i \in Instances, s \in Slots : StartRead(t, i, s, MaxRaceOps)
    \/ \E i \in Instances, s \in Slots : DirectCall(t, i, s, MaxRaceOps)
    \/ Check(t)
    \/ Call(t)
    \/ Set(t)
    \/ Get(t)
    \/ FuncReturn(t)

Spec == Init /\ [][Next]_vars

\* One thread: every read ends before the next one starts.
SeqNext ==
  \/ \E i \in Instances, s \in Slots : StartRead(1, i, s, MaxOps)
  \/ \E i \in Instances, s \in Slots : DirectCall(1, i, s, MaxOps)
  \/ Check(1)
  \/ Call(1)
  \/ Set(1)
  \/ Get(1)
  \/ FuncReturn(1)

SeqSpec == Init /\ [][SeqNext]_vars

\* ------------------------------------------------------------- properties
Idle == stack[1] = <<>>

Kind(c) == cls[c[2]]

\* Executions of the body of cell c that a read of the accessor started.
ViaAccessor(c) == calls[c] - direct[c]

Min(a, b) == IF a < b THEN a ELSE b

\* The cell the single thread's step works on: that of its innermost frame,
\* of the frame it pushes, or of the direct call it makes.
ActingCell ==
  IF stack[1] # <<>> THEN <<Top(1).inst, Top(1).slot>>
  ELSE IF stack'[1] # <<>> THEN <<Head(stack'[1]).inst, Head(stack'[1]).slot>>
  ELSE <<outcome'[1].inst, outcome'[1].slot>>

C2_SameValueOnEveryRead ==
  /\ \A c \in Cells :
       /\ Cardinality(rets[c]) <= 1
       /\ (Kind(c) = "counter" /\ direct[c] = 0) => rets[c] \subseteq {1}
  /\ (Idle /\ outcome[1].op = "direct" /\ outcome[1].how = "ret"
        /\ cls[outcome[1].slot] = "counter")
       => outcome[1].val = calls[<<outcome[1].inst, outcome[1].slot>>]

C2_Witness ==
  /\ Idle
  /\ \E c \in Cells : /\ Kind(c) = "counter"
                      /\ nreads[c] = 3
                      /\ rets[c] = {1}
                      /\ outcome[1].val = 1

\* C3 as stated: the slots start unset, and a slot that is set keeps its
\* value in every later step.
C3_Original ==
  /\ \A c \in Cells : slot[c] = None
  /\ [][\A c \in Cells : slot[c] # None => slot'[c] = slot[c]]_vars

\* C3 amended: the same for the slots whose body does not read its own
\* accessor, in sequential reads.
C3_WrittenAtMostOnce ==
  /\ \A c \in Cells : slot[c] = None
  /\ [][\A c \in Cells :
          (Kind(c) # "reentrant" /\ slot[c] # None) => slot'[c] = slot[c]]_vars

C3_Witness ==
  /\ Idle
  /\ \E c \in Cells : Kind(c) = "counter" /\ nreads[c] = 2 /\ slot[c] = 1

\* C4: a read in which the body raises ends with that fault at the client
\* and leaves the slot unset; with a body that fails on its first failK
\* invocations the body has run min(reads, failK + 1) times, the slot is set
\* exactly from read failK + 1 on, and only that read's value is returned.
C4_RetryAfterFailure ==
  Idle =>
    /\ (outcome[1].op = "read" /\ outcome[1].how = "raise") =>
         LET c == <<outcome[1].inst, outcome[1].slot>> IN
           slot[c] = None /\ outcome[1].val = calls[c]
    /\ \A c \in Cells :
         (Kind(c) = "failing" /\ direct[c] = 0) =>
           /\ calls[c] = Min(nreads[c], failK + 1)
           /\ (slot[c] = None) <=> (nreads[c] <= failK)
           /\ rets[c] \subseteq {failK + 1}

C4_Witness ==
  /\ Idle
  /\ failK = 1
  /\ \E c \in Cells : /\ Kind(c) = "failing"
                      /\ nreads[c] = 3
                      /\ calls[c] = 2
                      /\ slot[c] = 2
                      /\ rets[c] = {2}

\* C5: a step of a read (or direct call) of one accessor leaves the other
\* three slots of the instance and the executions of their bodies as they
\* were, and changes neither the configuration fields nor global_step.
C5_OnlyOwnSlot ==
  [][/\ \A c \in Cells :
          (c[1] = ActingCell[1] /\ c[2] # ActingCell[2]) =>
            slot'[c] = slot[c] /\ calls'[c] = calls[c]
     /\ config' = config
     /\ global_step' = global_step]_vars

C5_Witness ==
  /\ Idle
  /\ slot[<<"A", "_loss">>] # None
  /\ nreads[<<"A", "_loss">>] = 1
  /\ \A s \in Slots \ {"_loss"} : slot[<<"A", s>>] = None /\ calls[<<"A", s>>] = 0

\* C6: a step of a read on one instance leaves every slot of the other
\* instance, and the executions of its bodies, as they were; an instance not
\* read yet has its slot unset whatever was read on the other one, and its
\* own first read of a counter body still runs that body exactly once.
C6_InstancesIsolated ==
  /\ [](\A c \in Cells :
          /\ (nreads[c] = 0 /\ calls[c] = 0 /\ stack[1] = <<>>) => slot[c] = None
          /\ (Idle /\ Kind(c) = "counter" /\ nreads[c] > 0) => ViaAccessor(c) = 1)
  /\ [][\A c \in Cells :
          c[1] # ActingCell[1] => slot'[c] = slot[c] /\ calls'[c] = calls[c]]_vars

C6_Witness ==
  /\ Idle
  /\ cls["_loss"] = "counter"
  /\ nreads[<<"A", "_loss">>] = 2
  /\ nreads[<<"B", "_loss">>] = 1
  /\ calls[<<"A", "_loss">>] = 1
  /\ calls[<<"B", "_loss">>] = 1
  /\ outcome[1].inst = "B"

\* C7: nothing guards the check-then-set sequence: a thread that has passed
\* the unset test invokes the body whatever the slot holds by then, and
\* writes its result over whatever the slot holds by then, so that of two
\* racing writers the last one's value stays.
C7_LastWriterWins ==
  [][\A t \in Threads :
       /\ (At(t, "call") /\ stack'[t] # stack[t]) =>
            calls'[<<Top(t).inst, Top(t).slot>>]
              = calls[<<Top(t).inst, Top(t).slot>>] + 1
       /\ (At(t, "set") /\ stack'[t] # stack[t]) =>
            slot'[<<Top(t).inst, Top(t).slot>>] = Top(t).res]_vars

\* Both threads invoked the counter body for the same slot (1 and 2), both
\* wrote, and the slot holds the later writer's 2.
C7_Witness ==
  /\ \A t \in Threads : stack[t] = <<>> /\ outcome[t].op = "read"
  /\ outcome[1].inst = outcome[2].inst
  /\ outcome[1].slot = outcome[2].slot
  /\ cls[outcome[1].slot] = "counter"
  /\ outcome[1].res = 1
  /\ outcome[2].res = 2
  /\ calls[<<outcome[1].inst, outcome[1].slot>>] = 2
  /\ slot[<<outcome[1].inst, outcome[1].slot>>] = 2

C9_NestedInvocationOverwritten ==
  \A c \in Cells :
    (Kind(c) = "reentrant" /\ direct[c] = 0) =>
      /\ (At(1, "set") /\ Len(stack[1]) = 1 /\ <<Top(1).inst, Top(1).slot>> = c)
           => Top(1).res = 1 /\ slot[c] = 2 /\ calls[c] = 2
      /\ (Idle /\ nreads[c] >= 1)
           => calls[c] = 2 /\ slot[c] = 1 /\ rets[c] = {1}

C9_Witness ==
  /\ Idle
  /\ \E c \in Cells : /\ Kind(c) = "reentrant"
                      /\ nreads[c] = 1
                      /\ ops = 1
                      /\ calls[c] = 2
                      /\ slot[c] = 1
                      /\ outcome[1].val = 1

\* C10: what a read returns to the client is what the slot holds when the
\* read executes its return statement, whatever the read itself computed.
C10_ReturnsSlotAtReturn ==
  [][\A t \in Threads :
       (At(t, "get") /\ Len(stack[t]) = 1 /\ stack'[t] # stack[t]) =>
         /\ outcome'[t].how = "ret"
         /\ outcome'[t].val = slot[<<Top(t).inst, Top(t).slot>>]]_vars

\* Thread 1 computed 1 and returned the 2 that thread 2 computed.
C10_Witness ==
  /\ \A t \in Threads : stack[t] = <<>> /\ outcome[t].op = "read"
  /\ outcome[1].inst = outcome[2].inst
  /\ outcome[1].slot = outcome[2].slot
  /\ cls[outcome[1].slot] = "counter"
  /\ outcome[1].res = 1
  /\ outcome[1].val = 2
  /\ outcome[2].res = 2

\* The other outcome of the same race: the first writer returned its 1 before
\* the second writer stored 2, so two reads of one accessor of one instance
\* returned different values.
C10_DifferentValues ==
  \E c \in Cells : Kind(c) = "counter" /\ rets[c] = {1, 2}

====
